---- MODULE Spec2Model ----
(***************************************************************************)
(* Shape, mask and loss arithmetic of the face-detection repository:       *)
(*   - the MTCNN networks PNet / RNet / ONet (nets/modules.py), as the     *)
(*     tensor shape that flows through their layers;                       *)
(*   - AnchorGenerator.generate_anchors (layers/anchor.py);                *)
(*   - FocalLoss, OHEM and MultiBoxLoss (layers/loss.py).                  *)
(* Real numbers are carried as exact rationals <<num, den>> or as          *)
(* fixed-point integers whose scale is part of the operator's name.        *)
(***************************************************************************)
EXTENDS Integers, Sequences, FiniteSets, TLC

VARIABLES
    \* ---- MTCNN networks (modules.py)
    net,              \* which network runs forward: "PNet", "RNet", "ONet", or "none"
    is_train,         \* self.is_train
    train_landmarks,  \* config.TRAIN.train_landmarks
    in_h, in_w,       \* spatial size of the input image tensor (3 channels)
    x,                \* shape of the tensor flowing through self.features, without the batch axis
    layer,            \* index of the next layer of self.features to apply
    sizes,            \* heights seen after each convolution / pooling layer
    scores, offsets, landmarks,   \* shapes of the outputs (<<>> while not computed)
    net_pc,           \* "features", "heads", "softmax", "done", "error", "idle"
    \* ---- AnchorGenerator (anchor.py)
    image_size,       \* cfg.DATA.image_size, <<height, width>>
    steps,            \* cfg.MODEL.strides, one per feature level
    min_sizes,        \* cfg.MODEL.anchor_sizes, one list per feature level
    clip,             \* cfg.TRAIN.clip_box
    feature_maps,     \* self.feature_maps, <<rows, columns>> per level
    level,            \* the feature level the outer loop of generate_anchors is at
    anchors,          \* rows <<cx, cy, s_kx, s_ky>> gathered so far, each a rational <<num, den>>
    anc_pc,           \* "loop", "clip", "done", "idle"
    \* ---- FocalLoss, OHEM, MultiBoxLoss (loss.py); tensors of shape
    \* [batch, anchors] are functions [1 .. B -> [1 .. A -> value]]
    cls_loss_type,    \* cfg.TRAIN.cls_loss_type
    neg_pos_ratio,    \* cfg.TRAIN.neg_pos_ratio
    atss_labels,      \* the labels match_atss returned: -1, 0 or 1 per anchor
    matched_labels,   \* the same tensor as forward rewrites it in place
    pred_logits,      \* <<background logit, face logit>> per anchor
    box_diff,         \* |pred_boxes - matched_boxes| per anchor, in halves
    ldmk_diff,        \* |pred_landmarks - matched_landmarks| per anchor, in halves
    pos_ldmks_mask, pos_boxes_mask,
    landmark_loss, box_loss, cls_loss,   \* [sum, N]: the summed loss and its divisor
    targets,          \* the targets OHEM.forward is called with
    loss_c,           \* OHEM: per-anchor cross-entropy, positives zeroed
    num_neg,          \* OHEM: negatives to keep, per image
    neg_boxes_mask,   \* OHEM: the mined mask
    cls_rows,         \* OHEM: the anchors <<b, a>> whose rows enter the final cross-entropy
    matched_labels_target,   \* FocalLoss: one-hot targets, one row per anchor
    alpha_t, pt, ce,  \* FocalLoss: per-element weight, per-element pt, the cross-entropy term
    loss_pc           \* "landmarks", "boxes", "cls", "ohem_mine", "ohem_loss", "focal",
                      \* "done", "error", "idle"

netVars == <<net, is_train, train_landmarks, in_h, in_w, x, layer, sizes,
             scores, offsets, landmarks, net_pc>>

ancVars == <<image_size, steps, min_sizes, clip, feature_maps, level, anchors, anc_pc>>

lossVars == <<cls_loss_type, neg_pos_ratio, atss_labels, matched_labels, pred_logits,
              box_diff, ldmk_diff, pos_ldmks_mask, pos_boxes_mask, landmark_loss,
              box_loss, cls_loss, targets, loss_c, num_neg, neg_boxes_mask, cls_rows,
              matched_labels_target, alpha_t, pt, ce, loss_pc>>

vars == <<netVars, ancVars, lossVars>>

\* A loss that has not been computed.
NoLoss == [sum |-> 0, N |-> 0]

NetsIdle ==
    /\ net = "none" /\ is_train = FALSE /\ train_landmarks = FALSE
    /\ in_h = 0 /\ in_w = 0 /\ x = <<>> /\ layer = 0 /\ sizes = <<>>
    /\ scores = <<>> /\ offsets = <<>> /\ landmarks = <<>> /\ net_pc = "idle"

AnchorsIdle ==
    /\ image_size = <<>> /\ steps = <<>> /\ min_sizes = <<>> /\ clip = FALSE
    /\ feature_maps = <<>> /\ level = 0 /\ anchors = <<>> /\ anc_pc = "idle"

MultiBoxIdle ==
    /\ cls_loss_type = "none" /\ atss_labels = <<>> /\ matched_labels = <<>>
    /\ box_diff = <<>> /\ ldmk_diff = <<>>
    /\ pos_ldmks_mask = <<>> /\ pos_boxes_mask = <<>>
    /\ landmark_loss = NoLoss /\ box_loss = NoLoss

ClsIdle ==
    /\ cls_loss = NoLoss /\ targets = <<>> /\ loss_c = <<>> /\ num_neg = <<>>
    /\ neg_boxes_mask = <<>> /\ cls_rows = <<>> /\ matched_labels_target = <<>>
    /\ alpha_t = <<>> /\ pt = <<>> /\ ce = 0

LossIdle ==
    /\ MultiBoxIdle /\ ClsIdle
    /\ neg_pos_ratio = 0 /\ pred_logits = <<>> /\ loss_pc = "idle"

----------------------------------------------------------------------------
(* Bounds of the model and constants of the program.                       *)

MinSide == 10
MaxSide == 20
MaxImage == 5
MaxStride == 3
MaxLevels == 2
MaxCells == 4
MaxMatchCells == 2
MaxRatio == 2

NumClasses == 2
Alpha4 == 1
Gamma == 2
DefaultNegPosRatio == 3
BoxCoords == 4
LandmarkCoords == 10

PNetInput == 12
PNetStride == 2
RNetInput == 24
ONetInput == 48
InputChannels == 3

----------------------------------------------------------------------------
(* nets/modules.py : layers                                                *)

Conv2d(cin, cout, k, s) == [op |-> "Conv2d",    a |-> cin, b |-> cout, k |-> k, s |-> s]
PReLU(n)                == [op |-> "PReLU",     a |-> n,   b |-> n,    k |-> 0, s |-> 0]
MaxPool2d(k, s)         == [op |-> "MaxPool2d", a |-> 0,   b |-> 0,    k |-> k, s |-> s]
FlattenLayer            == [op |-> "Flatten",   a |-> 0,   b |-> 0,    k |-> 0, s |-> 0]
Linear(nin, nout)       == [op |-> "Linear",    a |-> nin, b |-> nout, k |-> 0, s |-> 0]
Dropout                 == [op |-> "Dropout",   a |-> 0,   b |-> 0,    k |-> 0, s |-> 0]

PNetFeatures ==
    << Conv2d(3, 10, 3, 1), PReLU(10), MaxPool2d(2, 2),
       Conv2d(10, 16, 3, 1), PReLU(16),
       Conv2d(16, 32, 3, 1), PReLU(32) >>

RNetFeatures ==
    << Conv2d(3, 28, 3, 1), PReLU(28), MaxPool2d(3, 2),
       Conv2d(28, 48, 3, 1), PReLU(48), MaxPool2d(3, 2),
       Conv2d(48, 64, 2, 1), PReLU(64),
       FlattenLayer, Linear(64 * 2 * 2, 128), PReLU(128), Dropout >>

ONetFeatures ==
    << Conv2d(3, 32, 3, 1), PReLU(32), MaxPool2d(3, 2),
       Conv2d(32, 64, 3, 1), PReLU(64), MaxPool2d(3, 2),
       Conv2d(64, 64, 3, 1), PReLU(64), MaxPool2d(2, 2),
       Conv2d(64, 128, 2, 1), PReLU(128),
       FlattenLayer, Linear(128 * 2 * 2, 256), PReLU(256), Dropout >>

Features(n) ==
    CASE n = "PNet" -> PNetFeatures
      [] n = "RNet" -> RNetFeatures
      [] n = "ONet" -> ONetFeatures

\* The two (three) output heads of each network: scores, offsets, landmarks.
ScoreHead(n) ==
    CASE n = "PNet" -> Conv2d(32, 2, 1, 1)
      [] n = "RNet" -> Linear(128, 2)
      [] n = "ONet" -> Linear(256, 2)

OffsetHead(n) ==
    CASE n = "PNet" -> Conv2d(32, 4, 1, 1)
      [] n = "RNet" -> Linear(128, 4)
      [] n = "ONet" -> Linear(256, 4)

LandmarkHead == Linear(256, 10)

NominalInput(n) ==
    CASE n = "PNet" -> PNetInput
      [] n = "RNet" -> RNetInput
      [] n = "ONet" -> ONetInput

\* Output length of a window of size k moved with stride s over n positions,
\* no padding, no dilation (nn.Conv2d).
ConvOutNoPlusOne(n, k, s) == (n - k) \div s

ConvOut(n, k, s) == (n - k) \div s + 1

\* nn.MaxPool2d(k, s, ceil_mode=False)
PoolOutCeil(n, k, s) == (n - k + s - 1) \div s + 1

PoolOut(n, k, s) == (n - k) \div s + 1

\* Whether layer L accepts a tensor of shape sh; the framework raises otherwise.
Accepts(L, sh) ==
    CASE L.op = "Conv2d"    -> Len(sh) = 3 /\ sh[1] = L.a /\ sh[2] >= L.k /\ sh[3] >= L.k
      [] L.op = "MaxPool2d" -> Len(sh) = 3 /\ sh[2] >= L.k /\ sh[3] >= L.k
      [] L.op = "PReLU"     -> Len(sh) >= 1 /\ sh[1] = L.a
      [] L.op = "Linear"    -> Len(sh) >= 1 /\ sh[Len(sh)] = L.a
      [] OTHER              -> TRUE

\* Flatten.forward: x.view(x.size(0), -1)
Product(sh) == IF Len(sh) = 3 THEN sh[1] * sh[2] * sh[3] ELSE sh[1]

\* Shape of L(sh) for an accepted sh.
Apply(L, sh) ==
    CASE L.op = "Conv2d"    -> <<L.b, ConvOut(sh[2], L.k, L.s), ConvOut(sh[3], L.k, L.s)>>
      [] L.op = "MaxPool2d" -> <<sh[1], PoolOut(sh[2], L.k, L.s), PoolOut(sh[3], L.k, L.s)>>
      [] L.op = "Flatten"   -> <<Product(sh)>>
      [] L.op = "Linear"    -> [sh EXCEPT ![Len(sh)] = L.b]
      [] OTHER              -> sh

----------------------------------------------------------------------------
(* nets/modules.py : forward                                               *)

InputSides(n) == (MinSide .. MaxSide) \cup {NominalInput(n)}

InitNets ==
    /\ net \in {"PNet", "RNet", "ONet"}
    /\ is_train \in BOOLEAN
    /\ train_landmarks \in BOOLEAN
    /\ in_h \in InputSides(net)
    /\ in_w \in InputSides(net)
    /\ x = <<InputChannels, in_h, in_w>>
    /\ layer = 1
    /\ sizes = <<>>
    /\ scores = <<>> /\ offsets = <<>> /\ landmarks = <<>>
    /\ net_pc = "features"
    /\ AnchorsIdle /\ LossIdle

NetConfig == <<net, is_train, train_landmarks, in_h, in_w>>

\* One layer of self.features(x) of the given kind.
FeatureStep(kind) ==
    /\ net_pc = "features"
    /\ layer <= Len(Features(net))
    /\ LET L == Features(net)[layer] IN
       /\ L.op = kind
       /\ IF Accepts(L, x)
          THEN /\ x' = Apply(L, x)
               /\ layer' = layer + 1
               /\ sizes' = IF kind \in {"Conv2d", "MaxPool2d"}
                           THEN Append(sizes, Apply(L, x)[2]) ELSE sizes
               /\ net_pc' = IF layer = Len(Features(net)) THEN "heads" ELSE "features"
          ELSE /\ net_pc' = "error"
               /\ UNCHANGED <<x, layer, sizes>>
    /\ UNCHANGED <<scores, offsets, landmarks, NetConfig, ancVars, lossVars>>

ApplyConv2d    == FeatureStep("Conv2d")
ApplyPReLU     == FeatureStep("PReLU")
ApplyMaxPool2d == FeatureStep("MaxPool2d")
ApplyFlatten   == FeatureStep("Flatten")
ApplyLinear    == FeatureStep("Linear")
ApplyDropout   == FeatureStep("Dropout")

\* scores = self.conv4_1(x); offsets = self.conv4_2(x)   (conv5_*, conv6_*)
Heads ==
    /\ net_pc = "heads"
    /\ IF Accepts(ScoreHead(net), x) /\ Accepts(OffsetHead(net), x)
       THEN /\ scores' = Apply(ScoreHead(net), x)
            /\ offsets' = Apply(OffsetHead(net), x)
            /\ net_pc' = "softmax"
       ELSE /\ net_pc' = "error"
            /\ UNCHANGED <<scores, offsets>>
    /\ UNCHANGED <<x, layer, sizes, landmarks, NetConfig, ancVars, lossVars>>

\* if not self.is_train: scores = softmax(scores, dim=1), which keeps the shape;
\* ONet then adds the landmark head when config.TRAIN.train_landmarks is set.
Outputs ==
    /\ net_pc = "softmax"
    /\ landmarks' = IF net = "ONet" /\ train_landmarks
                    THEN Apply(LandmarkHead, x) ELSE <<>>
    /\ net_pc' = "done"
    /\ UNCHANGED <<x, layer, sizes, scores, offsets, NetConfig, ancVars, lossVars>>

NextNets ==
    \/ ApplyConv2d
    \/ ApplyPReLU
    \/ ApplyMaxPool2d
    \/ ApplyFlatten
    \/ ApplyLinear
    \/ ApplyDropout
    \/ Heads
    \/ Outputs

SpecNets == InitNets /\ [][NextNets]_vars

----------------------------------------------------------------------------
(* layers/anchor.py : AnchorGenerator                                      *)

\* Rationals <<num, den>> with den > 0.
Less(p, q) == p[1] * q[2] < q[1] * p[2]

Zero == <<0, 1>>
One == <<1, 1>>

\* math.ceil(a / b) for positive integers
Ceil(a, b) == (a + b - 1) \div b

\* Tensor.clamp_(max=1, min=0), one element
Clamp(q) == IF Less(One, q) THEN One ELSE IF Less(q, Zero) THEN Zero ELSE q

\* (j + 0.5) * step / size
CenterAtCellEnd(j, step, size) == <<(2 * j + 2) * step, 2 * size>>

Center(j, step, size) == <<(2 * j + 1) * step, 2 * size>>

\* The anchors of feature level k, in the order of the loops: rows i, columns
\* j, then the sizes of the level.
LevelAnchors(k) ==
    LET f   == feature_maps[k]
        ms  == min_sizes[k]
        m   == Len(ms)
        row(n) ==
            LET i == n \div (f[2] * m)
                j == (n \div m) % f[2]
                t == (n % m) + 1
            IN  << Center(j, steps[k], image_size[2]),
                   Center(i, steps[k], image_size[1]),
                   <<ms[t], image_size[2]>>,
                   <<ms[t], image_size[1]>> >>
    IN  [n \in 1 .. f[1] * f[2] * m |-> row(n - 1)]

\* Sequences over S of length 1 .. n
SeqsUpTo(S, n) == UNION {[1 .. l -> S] : l \in 1 .. n}

AnchorSizeLists == {<<2>>, <<2, 4>>}

\* AnchorGenerator.__init__
InitAnchors ==
    /\ image_size \in (1 .. MaxImage) \X (1 .. MaxImage)
    /\ steps \in SeqsUpTo(1 .. MaxStride, MaxLevels)
    /\ min_sizes \in [1 .. Len(steps) -> AnchorSizeLists]
    /\ clip \in BOOLEAN
    /\ feature_maps = [k \in 1 .. Len(steps) |->
                         <<Ceil(image_size[1], steps[k]), Ceil(image_size[2], steps[k])>>]
    /\ level = 1
    /\ anchors = <<>>
    /\ anc_pc = "loop"
    /\ NetsIdle /\ LossIdle

AnchorConfig == <<image_size, steps, min_sizes, clip, feature_maps>>

\* One pass of the loop over self.feature_maps.
GenerateLevel ==
    /\ anc_pc = "loop"
    /\ level <= Len(feature_maps)
    /\ anchors' = anchors \o LevelAnchors(level)
    /\ level' = level + 1
    /\ anc_pc' = IF level = Len(feature_maps) THEN "clip" ELSE "loop"
    /\ UNCHANGED <<AnchorConfig, netVars, lossVars>>

\* output = torch.Tensor(anchors).view(-1, 4); if self.clip: output.clamp_(max=1, min=0)
ClipOutput ==
    /\ anc_pc = "clip"
    /\ anchors' = IF clip
                  THEN [n \in 1 .. Len(anchors) |-> [c \in 1 .. 4 |-> Clamp(anchors[n][c])]]
                  ELSE anchors
    /\ anc_pc' = "done"
    /\ UNCHANGED <<AnchorConfig, level, netVars, lossVars>>

NextAnchors ==
    \/ GenerateLevel
    \/ ClipOutput

SpecAnchors == InitAnchors /\ [][NextAnchors]_vars

----------------------------------------------------------------------------
(* layers/loss.py : tensors and the framework's elementwise functions      *)

Shapes(n) == {sh \in (1 .. n) \X (1 .. n) : sh[1] * sh[2] <= n}

Tensors(sh, S) == [1 .. sh[1] -> [1 .. sh[2] -> S]]

At(T, c) == T[c[1]][c[2]]

\* The anchors <<b, a>> of a [batch, anchors] tensor in the order of view(-1).
CellsOf(T) ==
    LET A == Len(T[1])
    IN  [n \in 1 .. Len(T) * A |-> <<((n - 1) \div A) + 1, ((n - 1) % A) + 1>>]

\* tensor[mask]: the anchors a boolean mask selects, in order.
Masked(mask) == SelectSeq(CellsOf(mask), LAMBDA c : At(mask, c))

RECURSIVE SumSeq(_)
SumSeq(q) == IF q = <<>> THEN 0 ELSE Head(q) + SumSeq(Tail(q))

RECURSIVE Pow(_, _)
Pow(b, e) == IF e = 0 THEN 1 ELSE b * Pow(b, e - 1)

\* The logits a prediction can take, as <<background, face>>, and the absolute
\* regression errors an anchor can have, in halves.
LogitPairs == {<<2, 0>>, <<0, 2>>}
Residuals == {1, 3}

\* sigmoid(z) in tenths
Sigmoid10(z) ==
    CASE z = -2 -> 1
      [] z = 0  -> 5
      [] z = 2  -> 9

\* log(1 + exp(z)) in hundredths
Softplus100(z) ==
    CASE z = -2 -> 13
      [] z = 0  -> 69
      [] z = 2  -> 213

\* F.cross_entropy of one row of two logits z against class t, in hundredths
CrossEntropy100(z, t) == Softplus100(z[2 - t] - z[t + 1])

\* F.binary_cross_entropy_with_logits of one element, in hundredths
BCE100(z, t) == IF t = 1 THEN Softplus100(-z) ELSE Softplus100(z)

\* F.smooth_l1_loss of one coordinate whose absolute error is d halves, in eighths
SmoothL1x8(d) == IF d < 2 THEN d * d ELSE 4 * d - 4

\* max(n, 1)
Max1NoFloor(n) == n

Max1(n) == IF n > 1 THEN n ELSE 1

----------------------------------------------------------------------------
(* layers/loss.py : MultiBoxLoss.forward                                   *)

\* matched_labels > 0
PosLdmkAnyFace(l) == l # 0

PosLdmk(l) == l > 0

\* matched_labels != 0
PosBox(l) == l # 0

\* F.smooth_l1_loss(pred[mask], gt[mask], reduction='sum') over `coords`
\* coordinates per anchor, in eighths
SmoothL1Sum(diff, rows, coords) ==
    SumSeq([n \in 1 .. Len(rows) |-> coords * SmoothL1x8(At(diff, rows[n]))])

InitMultiBox ==
    /\ \E sh \in Shapes(MaxMatchCells) :
        /\ atss_labels \in Tensors(sh, {-1, 0, 1})
        /\ pred_logits \in Tensors(sh, LogitPairs)
        /\ box_diff \in Tensors(sh, Residuals)
        /\ ldmk_diff \in Tensors(sh, Residuals)
    /\ matched_labels = atss_labels
    /\ cls_loss_type \in {"OHEM", "FocalLoss"}
    /\ neg_pos_ratio = DefaultNegPosRatio
    /\ pos_ldmks_mask = <<>> /\ pos_boxes_mask = <<>>
    /\ landmark_loss = NoLoss /\ box_loss = NoLoss
    /\ ClsIdle
    /\ loss_pc = "landmarks"
    /\ NetsIdle /\ AnchorsIdle

LossInputs == <<cls_loss_type, neg_pos_ratio, atss_labels, pred_logits, box_diff, ldmk_diff>>
OhemVars == <<targets, loss_c, num_neg, neg_boxes_mask, cls_rows>>
FocalVars == <<matched_labels_target, alpha_t, pt, ce>>

\* 1. landmark loss of the anchors whose label is > 0
LandmarkLoss ==
    /\ loss_pc = "landmarks"
    /\ LET mask == [b \in DOMAIN matched_labels |->
                      [a \in DOMAIN matched_labels[b] |-> PosLdmk(matched_labels[b][a])]]
           rows == Masked(mask)
       IN  /\ pos_ldmks_mask' = mask
           /\ landmark_loss' = [sum |-> SmoothL1Sum(ldmk_diff, rows, LandmarkCoords),
                                N   |-> Max1(Len(rows))]
    /\ loss_pc' = "boxes"
    /\ UNCHANGED <<LossInputs, matched_labels, pos_boxes_mask, box_loss, cls_loss,
                   OhemVars, FocalVars, netVars, ancVars>>

\* 2. box loss of the anchors whose label is != 0; their labels become 1
BoxLoss ==
    /\ loss_pc = "boxes"
    /\ LET mask == [b \in DOMAIN matched_labels |->
                      [a \in DOMAIN matched_labels[b] |-> PosBox(matched_labels[b][a])]]
           rows == Masked(mask)
       IN  /\ pos_boxes_mask' = mask
           /\ matched_labels' = [b \in DOMAIN matched_labels |->
                                   [a \in DOMAIN matched_labels[b] |->
                                      IF mask[b][a] THEN 1 ELSE matched_labels[b][a]]]
           /\ box_loss' = [sum |-> SmoothL1Sum(box_diff, rows, BoxCoords),
                           N   |-> Max1(Len(rows))]
    /\ loss_pc' = "cls"
    /\ UNCHANGED <<LossInputs, pos_ldmks_mask, landmark_loss, cls_loss,
                   OhemVars, FocalVars, netVars, ancVars>>

\* if self.cls_loss_type == "OHEM": cls_loss = self.ohem(pred_logits, matched_labels)
CallOHEM ==
    /\ loss_pc = "cls"
    /\ cls_loss_type = "OHEM"
    /\ targets' = matched_labels
    /\ loss_pc' = "ohem_mine"
    /\ UNCHANGED <<LossInputs, matched_labels, pos_ldmks_mask, pos_boxes_mask,
                   landmark_loss, box_loss, cls_loss, loss_c, num_neg, neg_boxes_mask,
                   cls_rows, FocalVars, netVars, ancVars>>

\* F.one_hot(labels) of a flat label vector: as many columns as the largest
\* label plus one.
OneHot(flat) ==
    LET width == 1 + CHOOSE m \in {flat[n] : n \in DOMAIN flat} :
                        \A n \in DOMAIN flat : flat[n] <= m
    IN  [n \in DOMAIN flat |-> [c \in 1 .. width |-> IF flat[n] = c - 1 THEN 1 ELSE 0]]

\* if self.cls_loss_type == "FocalLoss": one-hot targets, then self.focal_loss;
\* binary_cross_entropy_with_logits raises when the one-hot targets and the
\* logits differ in shape.
CallFocalLoss ==
    /\ loss_pc = "cls"
    /\ cls_loss_type = "FocalLoss"
    /\ LET cells == CellsOf(matched_labels)
           hot   == OneHot([n \in DOMAIN cells |-> At(matched_labels, cells[n])])
       IN  /\ matched_labels_target' = hot
           /\ loss_pc' = IF Len(hot[1]) = NumClasses THEN "focal" ELSE "error"
    /\ UNCHANGED <<LossInputs, matched_labels, pos_ldmks_mask, pos_boxes_mask,
                   landmark_loss, box_loss, cls_loss, OhemVars, alpha_t, pt, ce,
                   netVars, ancVars>>

----------------------------------------------------------------------------
(* layers/loss.py : FocalLoss.forward                                      *)

\* targets * self.alpha + (1. - targets) * (1. - self.alpha), in quarters
AlphaWeight(t) == t * Alpha4 + (1 - t) * (4 - Alpha4)

\* The focal loss of logits `rows` against one-hot targets T, both
\* [anchors, classes]. ce is reduced with self.reduction = 'sum' before it is
\* weighted; the result is the mean over the elements.
FocalLoss ==
    /\ loss_pc = "focal"
    /\ LET cells == CellsOf(pred_logits)
           rows  == [n \in DOMAIN cells |-> At(pred_logits, cells[n])]
           T     == matched_labels_target
           elems == CellsOf(T)
           preds == [r \in DOMAIN rows |-> [c \in 1 .. NumClasses |-> Sigmoid10(rows[r][c])]]
           total == SumSeq([n \in DOMAIN elems |->
                              BCE100(At(rows, elems[n]), At(T, elems[n]))])
           w     == [r \in DOMAIN rows |-> [c \in 1 .. NumClasses |-> AlphaWeight(T[r][c])]]
           p     == [r \in DOMAIN rows |-> [c \in 1 .. NumClasses |->
                        IF T[r][c] = 1 THEN preds[r][c] ELSE 10 - preds[r][c]]]
           loss  == [n \in DOMAIN elems |->
                        At(w, elems[n]) * Pow(10 - At(p, elems[n]), Gamma) * total]
       IN  /\ ce' = total
           /\ alpha_t' = w
           /\ pt' = p
           /\ cls_loss' = [sum |-> SumSeq(loss), N |-> Len(elems)]
    /\ loss_pc' = "done"
    /\ UNCHANGED <<LossInputs, matched_labels, pos_ldmks_mask, pos_boxes_mask,
                   landmark_loss, box_loss, OhemVars, matched_labels_target,
                   netVars, ancVars>>

----------------------------------------------------------------------------
(* layers/loss.py : OHEM.forward                                           *)

InitOHEM ==
    /\ \E sh \in Shapes(MaxCells) :
        /\ pred_logits \in Tensors(sh, LogitPairs)
        /\ targets \in Tensors(sh, {0, 1})
    /\ neg_pos_ratio \in 1 .. MaxRatio
    /\ MultiBoxIdle
    /\ cls_loss = NoLoss /\ loss_c = <<>> /\ num_neg = <<>>
    /\ neg_boxes_mask = <<>> /\ cls_rows = <<>> /\ matched_labels_target = <<>>
    /\ alpha_t = <<>> /\ pt = <<>> /\ ce = 0
    /\ loss_pc = "ohem_mine"
    /\ NetsIdle /\ AnchorsIdle

\* loss_c.sort(1, descending=True): whether loss l1 sorts before loss l2
PrecedesAscending(l1, l2) == l1 < l2

Precedes(l1, l2) == l1 > l2

\* torch.clamp(self.neg_pos_ratio * num_pos, max=pos_boxes_mask.size(1) - 1)
NumNegUnclamped(ratio, P, A) == ratio * P

NumNeg(ratio, P, A) == IF ratio * P > A - 1 THEN A - 1 ELSE ratio * P

\* num_pos of one image
NumPos(t) == Len(SelectSeq(t, LAMBDA v : v = 1))

\* The rank of anchor a among the anchors of one image whose losses are lc,
\* sorted by Precedes; the sort is not stable, and equal losses are ordered
\* with the anchors of `first` ahead of the others.
IdxRank(lc, a, first) ==
    Cardinality({a2 \in DOMAIN lc :
        \/ Precedes(lc[a2], lc[a])
        \/ /\ lc[a2] = lc[a]
           /\ \/ a2 \in first /\ a \notin first
              \/ (a2 \in first <=> a \in first) /\ a2 < a})

\* Lines 46-58: the per-anchor loss with the positives zeroed, its rank within
\* the image, and the mask of the num_neg first-ranked anchors.
OhemMine ==
    /\ loss_pc = "ohem_mine"
    /\ LET B  == 1 .. Len(targets)
           A  == 1 .. Len(targets[1])
           lc == [b \in B |-> [a \in A |->
                    IF targets[b][a] = 1 THEN 0
                    ELSE CrossEntropy100(pred_logits[b][a], targets[b][a])]]
           nn == [b \in B |-> NumNeg(neg_pos_ratio, NumPos(targets[b]), Len(targets[b]))]
       IN  /\ loss_c' = lc
           /\ num_neg' = nn
           /\ \E first \in [B -> SUBSET A] :
                neg_boxes_mask' = [b \in B |-> [a \in A |->
                                     IdxRank(lc[b], a, first[b]) < nn[b]]]
    /\ loss_pc' = "ohem_loss"
    /\ UNCHANGED <<LossInputs, matched_labels, pos_ldmks_mask, pos_boxes_mask,
                   landmark_loss, box_loss, cls_loss, targets, cls_rows, FocalVars,
                   netVars, ancVars>>

\* (pos_boxes_mask + neg_boxes_mask).gt(0), one element
InEither(pos, neg) == (IF pos THEN 1 ELSE 0) + (IF neg THEN 1 ELSE 0) > 0

\* Lines 61-70: cross-entropy, summed, of the positives and the mined anchors,
\* divided by the number of positives of the batch, at least 1.
OhemLoss ==
    /\ loss_pc = "ohem_loss"
    /\ LET mask == [b \in DOMAIN targets |-> [a \in DOMAIN targets[b] |->
                      InEither(targets[b][a] = 1, neg_boxes_mask[b][a])]]
           rows == Masked(mask)
           N    == SumSeq([b \in DOMAIN targets |-> NumPos(targets[b])])
       IN  /\ cls_rows' = rows
           /\ cls_loss' = [sum |-> SumSeq([n \in DOMAIN rows |->
                                     CrossEntropy100(At(pred_logits, rows[n]),
                                                     At(targets, rows[n]))]),
                           N   |-> Max1(N)]
    /\ loss_pc' = "done"
    /\ UNCHANGED <<LossInputs, matched_labels, pos_ldmks_mask, pos_boxes_mask,
                   landmark_loss, box_loss, targets, loss_c, num_neg, neg_boxes_mask,
                   FocalVars, netVars, ancVars>>

NextOHEM ==
    \/ OhemMine
    \/ OhemLoss

SpecOHEM == InitOHEM /\ [][NextOHEM]_vars

NextMultiBox ==
    \/ LandmarkLoss
    \/ BoxLoss
    \/ CallOHEM
    \/ CallFocalLoss
    \/ FocalLoss
    \/ OhemMine
    \/ OhemLoss

SpecMultiBox == InitMultiBox /\ [][NextMultiBox]_vars

----------------------------------------------------------------------------
(* Claims about the MTCNN networks.                                        *)

AtLayer(n, kind) ==
    /\ net = n /\ net_pc = "features"
    /\ layer <= Len(Features(n))
    /\ Features(n)[layer].op = kind

Nominal(n) == net = n /\ in_h = NominalInput(n) /\ in_w = NominalInput(n)

\* C6: PNet is a 12x12 window moved with stride 2. For every input with
\* H >= 12 and W >= 12 the forward pass succeeds, the score map has 2 channels
\* and the offset map 4, both of spatial size
\* (floor((H - 12) / 2) + 1) x (floor((W - 12) / 2) + 1); for even H that
\* height is (H - 10) / 2, and a 12x12 input gives a 1x1 output.
C6_PNetSlidingWindow ==
    (net = "PNet" /\ in_h >= PNetInput /\ in_w >= PNetInput) =>
        /\ net_pc # "error"
        /\ net_pc = "done" =>
            LET oh == (in_h - PNetInput) \div PNetStride + 1
                ow == (in_w - PNetInput) \div PNetStride + 1
            IN  /\ scores = <<2, oh, ow>>
                /\ offsets = <<4, oh, ow>>
                /\ (in_h % 2 = 0 => 2 * scores[2] = in_h - 10)
                /\ (in_h = PNetInput /\ in_w = PNetInput => scores = <<2, 1, 1>>)

\* A PNet forward pass that finished on an odd-sized, non-square input larger
\* than the window.
C6_Witness ==
    /\ net = "PNet" /\ net_pc = "done"
    /\ in_h = PNetInput + 3 /\ in_w = PNetInput + 6
    /\ scores = <<2, 2, 4>>

\* C7: a 24x24x3 input to RNet reaches Flatten as 64 channels of 2x2, i.e. the
\* 256 values the linear layer conv4 expects, through the heights
\* 22, 10, 8, 3, 2; a 48x48x3 input to ONet reaches Flatten as 128 channels of
\* 2x2, i.e. the 512 values conv5 expects, through 46, 22, 20, 9, 7, 3, 2.
\* Neither forward pass raises a shape error.
C7_FlattenMatchesLinear ==
    /\ Nominal("RNet") =>
        /\ net_pc # "error"
        /\ AtLayer("RNet", "Flatten") => x = <<64, 2, 2>> /\ sizes = <<22, 10, 8, 3, 2>>
        /\ AtLayer("RNet", "Linear") => x = <<256>> /\ Features("RNet")[layer].a = 256
    /\ Nominal("ONet") =>
        /\ net_pc # "error"
        /\ AtLayer("ONet", "Flatten") => x = <<128, 2, 2>> /\ sizes = <<46, 22, 20, 9, 7, 3, 2>>
        /\ AtLayer("ONet", "Linear") => x = <<512>> /\ Features("ONet")[layer].a = 512

\* ONet on its 48x48 input, past the linear layer, with all three outputs.
C7_Witness ==
    /\ Nominal("ONet") /\ net_pc = "done"
    /\ sizes = <<46, 22, 20, 9, 7, 3, 2>>
    /\ scores = <<2>> /\ offsets = <<4>> /\ landmarks = <<10>>

----------------------------------------------------------------------------
(* Claims about the anchor generator.                                      *)

Generated == anc_pc = "done"

DividesAll(size) == \A k \in 1 .. Len(steps) : size % steps[k] = 0

\* C8 as stated: every generated anchor has its center strictly inside the
\* image, 0 < cx < 1 and 0 < cy < 1, for every image size and stride, with or
\* without clipping.
C8_CentersInsideImage ==
    Generated =>
        \A n \in 1 .. Len(anchors) :
            /\ Less(Zero, anchors[n][1]) /\ Less(anchors[n][1], One)
            /\ Less(Zero, anchors[n][2]) /\ Less(anchors[n][2], One)

\* C8 amended: every center is strictly positive; cx < 1 for all anchors when
\* every stride divides the image width, and cy < 1 when every stride divides
\* the image height.
C8_CentersInsideWhenStrideDivides ==
    Generated =>
        \A n \in 1 .. Len(anchors) :
            /\ Less(Zero, anchors[n][1])
            /\ Less(Zero, anchors[n][2])
            /\ DividesAll(image_size[2]) => Less(anchors[n][1], One)
            /\ DividesAll(image_size[1]) => Less(anchors[n][2], One)

\* Two feature levels whose strides divide a 4x4 image, generated and clipped.
C8_Witness ==
    /\ Generated /\ clip
    /\ image_size = <<4, 4>> /\ steps = <<1, 2>>
    /\ Len(anchors) >= 20

----------------------------------------------------------------------------
(* Claims about OHEM.                                                      *)

OhemDone == loss_pc = "done" /\ targets # <<>>

Images == DOMAIN targets
AnchorsOf(b) == DOMAIN targets[b]

\* Anchor a of image b is one of the rows of the final cross-entropy.
Included(b, a) == \E n \in DOMAIN cls_rows : cls_rows[n] = <<b, a>>

Positives(b) == {a \in AnchorsOf(b) : targets[b][a] = 1}
Negatives(b) == {a \in AnchorsOf(b) : targets[b][a] # 1}

AnchorLoss(b, a) == CrossEntropy100(pred_logits[b][a], targets[b][a])

\* C1: OHEM keeps the hardest negatives. In every image, every non-positive
\* anchor that enters the classification loss has a cross-entropy at least as
\* large as that of every non-positive anchor of the same image left out.
C1_HardestNegativesKept ==
    OhemDone =>
        \A b \in Images : \A i, j \in Negatives(b) :
            (Included(b, i) /\ ~Included(b, j)) => AnchorLoss(b, i) >= AnchorLoss(b, j)

\* An image where a hard negative was kept and a strictly easier one left out.
C1_Witness ==
    /\ OhemDone
    /\ \E b \in Images : \E i, j \in Negatives(b) :
        /\ Included(b, i) /\ ~Included(b, j)
        /\ AnchorLoss(b, i) > AnchorLoss(b, j)

\* C2: per image with P positives out of A anchors, the mined mask marks
\* exactly min(neg_pos_ratio * P, A - 1) anchors; at most neg_pos_ratio * P
\* negatives enter the classification loss; every positive enters it; no
\* anchor enters it twice; an image with P = 0 contributes no anchor.
C2_NegPosRatioKept ==
    OhemDone =>
        /\ \A b \in Images :
            LET P == Cardinality(Positives(b))
                A == Cardinality(AnchorsOf(b))
                marked == Cardinality({a \in AnchorsOf(b) : neg_boxes_mask[b][a]})
                kept == Cardinality({a \in Negatives(b) : Included(b, a)})
            IN  /\ marked = (IF neg_pos_ratio * P < A - 1 THEN neg_pos_ratio * P ELSE A - 1)
                /\ kept <= neg_pos_ratio * P
                /\ \A a \in Positives(b) : Included(b, a)
                /\ P = 0 => \A a \in AnchorsOf(b) : ~Included(b, a)
        /\ \A m, n \in DOMAIN cls_rows : cls_rows[m] = cls_rows[n] => m = n

\* A batch with an image without positives beside an image where the clamp
\* to A - 1 is what limits the mined anchors.
C2_Witness ==
    /\ OhemDone
    /\ \E b \in Images : Positives(b) = {} /\ Negatives(b) # {}
    /\ \E b \in Images :
        /\ neg_pos_ratio * Cardinality(Positives(b)) > Cardinality(AnchorsOf(b)) - 1
        /\ Negatives(b) # {}
        /\ \A a \in AnchorsOf(b) : Included(b, a)

----------------------------------------------------------------------------
(* Claims about FocalLoss as MultiBoxLoss calls it.                        *)

FocalDone == loss_pc = "done" /\ cls_loss_type = "FocalLoss"

\* The logits and labels as FocalLoss sees them: one row per anchor.
FlatLogits == LET cells == CellsOf(pred_logits)
              IN  [n \in DOMAIN cells |-> At(pred_logits, cells[n])]
FlatLabels == LET cells == CellsOf(matched_labels)
              IN  [n \in DOMAIN cells |-> At(matched_labels, cells[n])]

\* C3: the focal loss is the mean over the elements i of
\* alpha_i * (1 - pt_i)^gamma * ce_i, with ce_i the binary cross-entropy of
\* element i alone.
C3_FocalLossElementwise ==
    FocalDone =>
        LET elems == CellsOf(matched_labels_target)
        IN  /\ cls_loss.N = Len(elems)
            /\ cls_loss.sum =
                 SumSeq([n \in DOMAIN elems |->
                    At(alpha_t, elems[n]) * Pow(10 - At(pt, elems[n]), Gamma)
                      * BCE100(At(FlatLogits, elems[n]), At(matched_labels_target, elems[n]))])

\* C4: alpha weighs the background. The term of a background anchor's own
\* class carries alpha, that of a face anchor's own class carries 1 - alpha.
C4_AlphaIsBackgroundWeight ==
    FocalDone =>
        \A r \in DOMAIN FlatLabels : \A c \in 1 .. NumClasses :
            matched_labels_target[r][c] = 1 =>
                /\ FlatLabels[r] = 0 => alpha_t[r][c] = Alpha4
                /\ FlatLabels[r] = 1 => alpha_t[r][c] = 4 - Alpha4

----------------------------------------------------------------------------
(* Claims about MultiBoxLoss.                                              *)

AllCells == {<<b, a>> : b \in DOMAIN atss_labels, a \in 1 .. Len(atss_labels[1])}

MasksTaken == loss_pc \in {"cls", "ohem_mine", "ohem_loss", "focal", "done", "error"}
                /\ atss_labels # <<>>

InOHEM == cls_loss_type = "OHEM" /\ loss_pc \in {"ohem_mine", "ohem_loss", "done"}

\* The sum, in eighths, of the smooth-L1 losses of the anchors in S.
RegressionSum(diff, S, coords) ==
    LET cells == CellsOf(diff)
    IN  SumSeq([n \in DOMAIN cells |->
                  IF cells[n] \in S THEN coords * SmoothL1x8(At(diff, cells[n])) ELSE 0])

\* C5: label -1 counts for the box loss and is a positive for the
\* classification loss but never counts for the landmark loss; label 1 counts
\* for all three; label 0 counts for neither regression loss. The landmark
\* mask is taken while the labels are still as matched, and the labels the
\* classification loss gets are only 0 and 1.
C5_LabelsTreatedByKind ==
    /\ (loss_pc = "boxes" /\ atss_labels # <<>>) =>
          /\ matched_labels = atss_labels
          /\ \A c \in AllCells : At(pos_ldmks_mask, c) <=> At(atss_labels, c) = 1
    /\ MasksTaken =>
          /\ \A c \in AllCells :
                /\ At(atss_labels, c) = -1 =>
                      At(pos_boxes_mask, c) /\ ~At(pos_ldmks_mask, c) /\ At(matched_labels, c) = 1
                /\ At(atss_labels, c) = 1 =>
                      At(pos_boxes_mask, c) /\ At(pos_ldmks_mask, c) /\ At(matched_labels, c) = 1
                /\ At(atss_labels, c) = 0 =>
                      ~At(pos_boxes_mask, c) /\ ~At(pos_ldmks_mask, c) /\ At(matched_labels, c) = 0
          /\ landmark_loss.sum =
                RegressionSum(ldmk_diff, {c \in AllCells : At(atss_labels, c) = 1}, LandmarkCoords)
          /\ box_loss.sum =
                RegressionSum(box_diff, {c \in AllCells : At(atss_labels, c) # 0}, BoxCoords)
    /\ InOHEM =>
          \A c \in AllCells : At(targets, c) = (IF At(atss_labels, c) = 0 THEN 0 ELSE 1)
    /\ (cls_loss_type = "FocalLoss" /\ loss_pc \in {"focal", "done"}) =>
          \A r \in DOMAIN FlatLabels :
              matched_labels_target[r] =
                  (IF At(atss_labels, CellsOf(atss_labels)[r]) = 0 THEN <<1, 0>> ELSE <<0, 1>>)

\* A finished forward pass over a batch holding a face without usable
\* landmarks beside a face with landmarks.
C5_Witness ==
    /\ loss_pc = "done" /\ atss_labels # <<>>
    /\ \E c, d \in AllCells : At(atss_labels, c) = -1 /\ At(atss_labels, d) = 1
    /\ landmark_loss.sum > 0
    /\ box_loss.sum > landmark_loss.sum

Matched == Cardinality({c \in AllCells : At(atss_labels, c) # 0})
WithLandmarks == Cardinality({c \in AllCells : At(atss_labels, c) > 0})

\* C9: the box loss and the OHEM classification loss are divided by
\* N = max(matched anchors of the batch, 1), the landmark loss by
\* N1 = max(anchors with label > 0, 1); no divisor is 0; with no matched
\* anchor the three losses are 0.
C9_NormalizedByMatchedFloorOne ==
    /\ MasksTaken =>
          /\ box_loss.N = (IF Matched >= 1 THEN Matched ELSE 1)
          /\ landmark_loss.N = (IF WithLandmarks >= 1 THEN WithLandmarks ELSE 1)
          /\ Matched = 0 => box_loss.sum = 0 /\ landmark_loss.sum = 0
    /\ (InOHEM /\ loss_pc = "done") =>
          /\ cls_loss.N = (IF Matched >= 1 THEN Matched ELSE 1)
          /\ Matched = 0 => cls_loss.sum = 0

\* A finished OHEM forward pass over a batch of two images in which no anchor
\* is matched.
C9_Witness ==
    /\ InOHEM /\ loss_pc = "done"
    /\ Len(atss_labels) = 2
    /\ Matched = 0
    /\ cls_loss = [sum |-> 0, N |-> 1]
    /\ box_loss = [sum |-> 0, N |-> 1]
    /\ landmark_loss = [sum |-> 0, N |-> 1]

====
